---------------------------- MODULE Spec2Model ----------------------------
(***************************************************************************)
(* Model of localizar_duplicatas (src/main.cpp): main reads a root path,   *)
(* obter_arquivos_duplicados walks the tree and indexes the regular files  *)
(* by base name, exibir_duplicados hashes the members of every name shared *)
(* by two or more paths (calcularHash), prints the groups whose hash is    *)
(* shared and accumulates sizes, and main prints the estimate.             *)
(*                                                                         *)
(* The file system, the outcome of every open/read and the moment a file   *)
(* disappears belong to the environment: they are drawn from small sets.   *)
(* An exception nobody catches ends the process (std::terminate), which is *)
(* the state pc = "abortado".                                              *)
(***************************************************************************)
EXTENDS Integers, Sequences, FiniteSets, TLC

VARIABLES
    fs,                   \* regular files under the root: path -> bytes
    pc,                   \* position of main
    pastaRaiz,            \* main.cpp:103
    arquivos,             \* main.cpp:110  name -> sequence of paths
    pendentes,            \* names the loop of main.cpp:70 has not visited yet
    encontrouDuplicados,  \* main.cpp:67
    tamanhoTotalEmBytes,  \* main.cpp:68
    totalDuplicatas,      \* main.cpp:69
    saida,                \* std::cout, one element per line
    avisos,               \* number of lines written to std::cerr
    codigoSaida,          \* value returned by main
    excecao,              \* the call whose exception ended the process
    chamadas,             \* history: path -> number of calls of calcularHash
    hashDe,               \* history: path -> last value calcularHash returned
    falhou,               \* history: paths whose open or read failed
    sumiu,                \* history: the path file_size did not find
    percorreu             \* history: the directory iterator was constructed

vars == <<fs, pc, pastaRaiz, arquivos, pendentes, encontrouDuplicados,
          tamanhoTotalEmBytes, totalDuplicatas, saida, avisos, codigoSaida,
          excecao, chamadas, hashDe, falhou, sumiu, percorreu>>

-----------------------------------------------------------------------------
(* Bounds of the environment *)

\* files under the root
MaxArquivos == 4

\* opens and reads that fail in one run
MaxFalhas == 2

\* the directories under the root, in one depth-first order; the i-th file
\* of a name lies in the i-th directory (directories differ only by name)
Dirs == << <<"a">>, <<"a", "s">>, <<"b">>, <<"c">>, <<"c", "s">> >>

Nomes == { "x.txt", "y.txt" }

\* the contents a file can have: empty, "h" and "w"
ConteudosEmOrdem == << <<>>, <<104>>, <<119>> >>

Conteudos == { ConteudosEmOrdem[i] : i \in 1..Len(ConteudosEmOrdem) }

Raizes == { "", "nao_existe", "arquivo.bin", "raiz" }

NenhumCaminho == <<>>

-----------------------------------------------------------------------------
(* std::filesystem *)

\* what the path typed by the user names on disk
TipoDe(p) ==
    CASE p = "raiz"        -> "directory"
      [] p = "arquivo.bin" -> "regular"
      [] OTHER             -> "none"

\* exists with the empty path taken for the current directory
existsVazio(p) == p = "" \/ TipoDe(p) # "none"

\* std::filesystem::exists (main.cpp:105)
exists(p) == TipoDe(p) # "none"

\* path::filename (main.cpp:58): the last component
filename(p) == p[Len(p)]

\* the directories above an entry
Ancestrais(p) == { SubSeq(p, 1, k) : k \in 1..(Len(p) - 1) }

\* std::filesystem::file_size (main.cpp:85) of a file that is on disk
file_size(p) == Len(fs[p])

-----------------------------------------------------------------------------
(* CryptoPP: SHA256 and HexEncoder *)

bufferSize == 8192

DIGESTSIZE == 32

HexChars == << "0", "1", "2", "3", "4", "5", "6", "7",
               "8", "9", "A", "B", "C", "D", "E", "F" >>

\* an injective numbering of short byte strings: SHA-256 is modelled as a
\* collision-free function (spec section 8: collisions count as impossible)
RECURSIVE Codigo(_)
Codigo(m) == IF m = <<>> THEN 0
             ELSE Codigo(SubSeq(m, 1, Len(m) - 1)) * 257 + m[Len(m)] + 1

\* hash.Final(digest) (main.cpp:37-38): DIGESTSIZE bytes, big endian
RECURSIVE BytesDe(_, _)
BytesDe(n, k) == IF k = 0 THEN <<>>
                 ELSE Append(BytesDe(n \div 256, k - 1), n % 256)

Final(m) == BytesDe(Codigo(m), DIGESTSIZE)

\* HexEncoder + StringSink (main.cpp:40-43): two upper-case digits per byte
RECURSIVE HexEncoder(_)
HexEncoder(bs) ==
    IF bs = <<>> THEN ""
    ELSE HexChars[(bs[1] \div 16) + 1] \o HexChars[(bs[1] % 16) + 1]
         \o HexEncoder(Tail(bs))


\* the bytes the stream hands over: all of them, or those before the error
Entregues(conteudo, r) ==
    IF r.tipo = "erro_leitura" THEN SubSeq(conteudo, 1, r.lidos) ELSE conteudo

\* the loop of main.cpp:28-34: hash.Update once per full buffer, and once
\* more for the bytes a failed read left behind (gcount)
RECURSIVE Ler(_, _, _)
Ler(dados, pos, acc) ==
    LET restante == Len(dados) - pos IN
    IF restante >= bufferSize
    THEN Ler(dados, pos + bufferSize,
             acc \o SubSeq(dados, pos + 1, pos + bufferSize))
    ELSE IF restante > 0
         THEN acc \o SubSeq(dados, pos + 1, Len(dados))
         ELSE acc

\* the outcomes the environment can give one call of calcularHash
Resultados(conteudo) ==
    { [tipo |-> t, lidos |-> 0] : t \in {"nao_abre", "excecao"} }
    \cup { [tipo |-> "ok", lidos |-> Len(conteudo)] }
    \cup { [tipo |-> "erro_leitura", lidos |-> k] : k \in 0..Len(conteudo) }

Falha(r) == r.tipo # "ok"

\* the byte strings a stream can hand over: the prefixes of the contents
Mensagens == UNION { { SubSeq(c, 1, k) : k \in 0..Len(c) } : c \in Conteudos }

\* main.cpp:36-44 for each of them: finalize, then encode as hexadecimal
hashHex[m \in Mensagens] == HexEncoder(Final(m))

\* calcularHash (main.cpp:18-49)
calcularHash(caminho, r) ==
    IF r.tipo = "nao_abre" THEN ""
    ELSE IF r.tipo = "excecao" THEN ""
    ELSE hashHex[Ler(Entregues(fs[caminho], r), 0, <<>>)]

\* the lines calcularHash writes to std::cerr (main.cpp:23, 46)
AvisosDe(r) == IF r.tipo \in {"nao_abre", "excecao"} THEN 1 ELSE 0

-----------------------------------------------------------------------------
(* The trees the run can find under the root *)

\* the files of a tree with kx files named x.txt and ky named y.txt
CaminhosDe(kx, ky) ==
    { Append(Dirs[i], "x.txt") : i \in 1..kx }
    \cup { Append(Dirs[i], "y.txt") : i \in 1..ky }

\* position of a path in the depth-first order of Dirs
Posicao(p) ==
    CHOOSE i \in 1..Len(Dirs) : Dirs[i] = SubSeq(p, 1, Len(p) - 1)

Indice(c) == CHOOSE i \in 1..Len(ConteudosEmOrdem) : ConteudosEmOrdem[i] = c

\* the files of one name are interchangeable, and so are the two names:
\* a name's contents follow the order of ConteudosEmOrdem along Dirs, and
\* x.txt is the name with the most files
Arvores ==
    { f \in UNION { [CaminhosDe(kx, ky) -> Conteudos] :
                      <<kx, ky>> \in { q \in (0..Len(Dirs)) \X (0..Len(Dirs)) :
                                         q[2] <= q[1] /\ q[1] + q[2] <= MaxArquivos } } :
        \A p \in DOMAIN f, q \in DOMAIN f :
            (filename(p) = filename(q) /\ Posicao(p) < Posicao(q))
                => Indice(f[p]) <= Indice(f[q]) }

RECURSIVE EmOrdem(_, _)
\* the paths of S that lie in directories i.., by directory
EmOrdem(S, i) ==
    IF i > Len(Dirs) THEN <<>>
    ELSE LET aqui == { p \in S : Posicao(p) = i } IN
         (IF Append(Dirs[i], "x.txt") \in aqui
            THEN << Append(Dirs[i], "x.txt") >> ELSE <<>>)
         \o (IF Append(Dirs[i], "y.txt") \in aqui
               THEN << Append(Dirs[i], "y.txt") >> ELSE <<>>)
         \o EmOrdem(S, i + 1)

Inverso(s) == [i \in 1..Len(s) |-> s[Len(s) + 1 - i]]

\* the orders in which the iterator can yield the files S: the order of a
\* directory's entries is unspecified; two depth-first orders are taken
OrdensDeIteracao(S) == { EmOrdem(S, 1), Inverso(EmOrdem(S, 1)) }

RECURSIVE Permutacoes(_)
Permutacoes(S) ==
    IF S = {} THEN { <<>> }
    ELSE UNION { { <<x>> \o q : q \in Permutacoes(S \ {x}) } : x \in S }

Imagem(s) == { s[i] : i \in 1..Len(s) }

-----------------------------------------------------------------------------
(* main, first part (main.cpp:100-108) *)

Init ==
    /\ fs \in Arvores
    /\ pc = "main"
    /\ pastaRaiz = ""
    /\ arquivos = <<>>
    /\ pendentes = {}
    /\ encontrouDuplicados = FALSE
    /\ tamanhoTotalEmBytes = 0
    /\ totalDuplicatas = 0
    /\ saida = <<>>
    /\ avisos = 0
    /\ codigoSaida = "nenhum"
    /\ excecao = "nenhuma"
    /\ chamadas = [p \in DOMAIN fs |-> 0]
    /\ hashDe = [p \in DOMAIN fs |-> ""]
    /\ falhou = {}
    /\ sumiu = NenhumCaminho
    /\ percorreu = FALSE

\* the lines of std::cout (main.cpp:82, 84, 94, 106, 116)
TextoGrupo == "Arquivos duplicados encontrados para o nome: "
TextoCaminho == " - "
TextoNenhum == "Nenhum arquivo duplicado encontrado."
TextoRaiz == "Pasta raiz nao existe."
TextoLiberavel == "Tamanho em bytes que pode ser liberado: "

\* main.cpp:101-102
Cabecalho == << <<"Localizar duplicatas!">>, <<"Informe pasta raiz: ">> >>

\* main.cpp:100-108: banner, prompt, getline, and the test of the root
MainLerRaiz(linha) ==
    /\ pc = "main"
    /\ pastaRaiz' = linha
    /\ IF ~exists(linha)
       THEN /\ saida' = saida \o Cabecalho \o << <<TextoRaiz>> >>
            /\ codigoSaida' = -1
            /\ pc' = "fim"
       ELSE /\ saida' = saida \o Cabecalho
            /\ pc' = "obter"
            /\ UNCHANGED codigoSaida
    /\ UNCHANGED <<fs, arquivos, pendentes, encontrouDuplicados,
                   tamanhoTotalEmBytes, totalDuplicatas, avisos, excecao,
                   chamadas, hashDe, falhou, sumiu, percorreu>>

-----------------------------------------------------------------------------
(* obter_arquivos_duplicados (main.cpp:51-63) *)

\* the entries the iterator reaches when it may not open the directories
\* negados (skip_permission_denied): directories and regular files
Entradas(negados) ==
    { e \in Imagem(Dirs) \cup DOMAIN fs : Ancestrais(e) \cap negados = {} }

\* the directories the walk may be denied: none, or one and what is below it
Negaveis == { {} } \cup { { d } : d \in Imagem(Dirs) }

\* directory_entry::is_regular_file (main.cpp:57)
is_regular_file(e) == e \in DOMAIN fs

\* arquivos[nomeArquivo].push_back(entrada.path()) over the entries in order
RECURSIVE Indexar(_, _)
Indexar(ordem, mapa) ==
    IF ordem = <<>> THEN mapa
    ELSE LET e == Head(ordem)
             nomeArquivo == filename(e)
         IN  Indexar(Tail(ordem),
               IF nomeArquivo \in DOMAIN mapa
               THEN [mapa EXCEPT ![nomeArquivo] = Append(@, e)]
               ELSE [n \in DOMAIN mapa \cup {nomeArquivo} |->
                       IF n = nomeArquivo THEN <<e>> ELSE mapa[n]])

\* main.cpp:110-111 and 65-69: the walk, then the locals of exibir_duplicados.
\* The iterator's constructor throws for a root that is no directory, and
\* nothing catches it.
ObterArquivos ==
    /\ pc = "obter"
    /\ percorreu' = TRUE
    /\ IF TipoDe(pastaRaiz) # "directory"
       THEN /\ pc' = "abortado"
            /\ excecao' = "recursive_directory_iterator"
            /\ UNCHANGED <<arquivos, pendentes>>
       ELSE \E negados \in Negaveis :
            \E ordem \in OrdensDeIteracao(
                            { e \in Entradas(negados) : is_regular_file(e) }) :
              /\ arquivos' = Indexar(ordem, <<>>)
              /\ pendentes' = DOMAIN arquivos'
              /\ pc' = "exibir"
              /\ UNCHANGED excecao
    /\ UNCHANGED <<fs, pastaRaiz, encontrouDuplicados, tamanhoTotalEmBytes,
                   totalDuplicatas, saida, avisos, codigoSaida, chamadas,
                   hashDe, falhou, sumiu>>

-----------------------------------------------------------------------------
(* exibir_duplicados (main.cpp:65-97) *)

\* the outcomes of the calls of calcularHash for caminhos, one per path
RECURSIVE ResultadosDe(_)
ResultadosDe(caminhos) ==
    IF caminhos = <<>> THEN { <<>> }
    ELSE { <<r>> \o rs : r \in Resultados(fs[Head(caminhos)]),
                         rs \in ResultadosDe(Tail(caminhos)) }

\* main.cpp:74-78: hashes[hash].push_back(caminho) unless the hash is empty
RECURSIVE Agrupar(_, _, _)
Agrupar(caminhos, rs, hashes) ==
    IF caminhos = <<>> THEN hashes
    ELSE LET caminho == Head(caminhos)
             hash == calcularHash(caminho, Head(rs))
         IN  Agrupar(Tail(caminhos), Tail(rs),
               IF hash = "" THEN hashes
               ELSE IF hash \in DOMAIN hashes
               THEN [hashes EXCEPT ![hash] = Append(@, caminho)]
               ELSE [h \in DOMAIN hashes \cup {hash} |->
                       IF h = hash THEN <<caminho>> ELSE hashes[h]])

\* the accumulation with the size left out
AcumularSemTamanho(bytes, caminho) == bytes

\* main.cpp:85: tamanhoTotalEmBytes += file_size(caminho)
Acumular(bytes, caminho) == bytes + file_size(caminho)

\* main.cpp:83-87: one line per path, its size and the count; file_size
\* throws for the path that is gone, after its line was printed
RECURSIVE ListarCaminhos(_, _, _)
ListarCaminhos(caminhosHash, e, sumido) ==
    IF caminhosHash = <<>> THEN e
    ELSE LET caminho == Head(caminhosHash)
             e1 == [e EXCEPT !.saida = Append(@, <<TextoCaminho, caminho>>)]
         IN  IF caminho = sumido
             THEN [e1 EXCEPT !.sumiu = caminho]
             ELSE ListarCaminhos(Tail(caminhosHash),
                    [e1 EXCEPT !.bytes = Acumular(@, caminho),
                               !.total = @ + 1],
                    sumido)

\* main.cpp:80-90: the groups of two or more, in the order the map gives
RECURSIVE ImprimirGrupos(_, _, _, _, _)
ImprimirGrupos(ordem, hashes, nomeArquivo, e, sumido) ==
    IF ordem = <<>> \/ e.sumiu # NenhumCaminho THEN e
    ELSE LET caminhosHash == hashes[Head(ordem)] IN
         IF Len(caminhosHash) > 1
         THEN LET e1 == ListarCaminhos(caminhosHash,
                          [e EXCEPT !.saida = Append(@,
                             <<TextoGrupo, nomeArquivo>>)],
                          sumido)
              IN  ImprimirGrupos(Tail(ordem), hashes, nomeArquivo,
                     IF e1.sumiu # NenhumCaminho THEN e1
                     ELSE [e1 EXCEPT !.encontrou = TRUE],
                     sumido)
         ELSE ImprimirGrupos(Tail(ordem), hashes, nomeArquivo, e, sumido)

\* one iteration of the loop of main.cpp:70-92, for the name nomeArquivo
ExibirNome(nomeArquivo) ==
    /\ pc = "exibir"
    /\ nomeArquivo \in pendentes
    /\ pendentes' = pendentes \ {nomeArquivo}
    /\ LET caminhos == arquivos[nomeArquivo] IN
       IF Len(caminhos) > 1
       THEN \E rs \in ResultadosDe(caminhos) :
            LET falhas == { caminhos[i] : i \in { j \in 1..Len(rs) : Falha(rs[j]) } }
                hashes == Agrupar(caminhos, rs, <<>>)
                repetidos == { h \in DOMAIN hashes : Len(hashes[h]) > 1 }
                listados == UNION { Imagem(hashes[h]) : h \in repetidos }
            IN
            /\ Cardinality(falhou \cup falhas) <= MaxFalhas
            /\ \E ordem \in Permutacoes(repetidos) :
               \E sumido \in listados \cup {NenhumCaminho} :
               LET e == ImprimirGrupos(ordem, hashes, nomeArquivo,
                          [saida |-> saida, bytes |-> tamanhoTotalEmBytes,
                           total |-> totalDuplicatas,
                           encontrou |-> encontrouDuplicados,
                           sumiu |-> NenhumCaminho],
                          sumido)
               IN
               /\ chamadas' = [p \in DOMAIN fs |->
                                 IF p \in Imagem(caminhos)
                                 THEN chamadas[p] + 1 ELSE chamadas[p]]
               /\ hashDe' = [p \in DOMAIN fs |->
                               IF \E i \in 1..Len(caminhos) : caminhos[i] = p
                               THEN calcularHash(p,
                                      rs[CHOOSE i \in 1..Len(caminhos) :
                                           caminhos[i] = p])
                               ELSE hashDe[p]]
               /\ falhou' = falhou \cup falhas
               /\ avisos' = avisos + Cardinality(
                                { i \in 1..Len(rs) : AvisosDe(rs[i]) = 1 })
               /\ saida' = e.saida
               /\ tamanhoTotalEmBytes' = e.bytes
               /\ totalDuplicatas' = e.total
               /\ encontrouDuplicados' = e.encontrou
               /\ sumiu' = e.sumiu
               /\ IF e.sumiu # NenhumCaminho
                  THEN pc' = "abortado" /\ excecao' = "file_size"
                  ELSE UNCHANGED <<pc, excecao>>
       ELSE UNCHANGED <<pc, excecao, chamadas, hashDe, falhou, avisos, saida,
                        tamanhoTotalEmBytes, totalDuplicatas,
                        encontrouDuplicados, sumiu>>
    /\ UNCHANGED <<fs, pastaRaiz, arquivos, codigoSaida, percorreu>>

\* the closing line printed whatever was found
FecharSempre(linhas, encontrou) == Append(linhas, <<TextoNenhum>>)

\* main.cpp:93-95: the closing line when nothing was found
Fechar(linhas, encontrou) ==
    IF ~encontrou THEN Append(linhas, <<TextoNenhum>>) ELSE linhas

\* main.cpp:93-96: the end of exibir_duplicados, which returns the totals
ExibirFim ==
    /\ pc = "exibir"
    /\ pendentes = {}
    /\ saida' = Fechar(saida, encontrouDuplicados)
    /\ pc' = "estimativa"
    /\ UNCHANGED <<fs, pastaRaiz, arquivos, pendentes, encontrouDuplicados,
                   tamanhoTotalEmBytes, totalDuplicatas, avisos, codigoSaida,
                   excecao, chamadas, hashDe, falhou, sumiu, percorreu>>

-----------------------------------------------------------------------------
(* main, last part (main.cpp:113-119) *)

\* the average alone
LiberavelSoMedia(tamanhoBytes, total) == tamanhoBytes \div total

\* main.cpp:114-116: the total less the integer average size
Liberavel(tamanhoBytes, total) ==
    tamanhoBytes - (tamanhoBytes \div total)

MainEstimativa ==
    /\ pc = "estimativa"
    /\ saida' = IF totalDuplicatas # 0
                THEN Append(saida,
                       <<TextoLiberavel,
                         Liberavel(tamanhoTotalEmBytes, totalDuplicatas)>>)
                ELSE saida
    /\ codigoSaida' = 0
    /\ pc' = "fim"
    /\ UNCHANGED <<fs, pastaRaiz, arquivos, pendentes, encontrouDuplicados,
                   tamanhoTotalEmBytes, totalDuplicatas, avisos, excecao,
                   chamadas, hashDe, falhou, sumiu, percorreu>>

-----------------------------------------------------------------------------

Next ==
    \/ \E linha \in Raizes : MainLerRaiz(linha)
    \/ ObterArquivos
    \/ \E nomeArquivo \in Nomes : ExibirNome(nomeArquivo)
    \/ ExibirFim
    \/ MainEstimativa

Spec == Init /\ [][Next]_vars

-----------------------------------------------------------------------------
(* What a run printed *)

\* the groups of std::cout: a header line and the path lines after it
RECURSIVE GruposDe(_)
GruposDe(linhas) ==
    IF linhas = <<>> THEN <<>>
    ELSE LET antes == GruposDe(SubSeq(linhas, 1, Len(linhas) - 1))
             l == linhas[Len(linhas)]
         IN  IF l[1] = TextoGrupo
             THEN Append(antes, [nome |-> l[2], caminhos |-> <<>>])
             ELSE IF l[1] = TextoCaminho
             THEN [antes EXCEPT ![Len(antes)].caminhos = Append(@, l[2])]
             ELSE antes

Grupos == GruposDe(saida)

\* the paths listed under some group
Listados == UNION { Imagem(Grupos[i].caminhos) : i \in 1..Len(Grupos) }

NumLinhas(texto) == Cardinality({ i \in 1..Len(saida) : saida[i][1] = texto })

RECURSIVE Soma(_, _)
Soma(f, S) == IF S = {} THEN 0
              ELSE LET x == CHOOSE y \in S : TRUE IN f[x] + Soma(f, S \ {x})

\* the paths the walk recorded
Registrados == UNION { Imagem(arquivos[n]) : n \in DOMAIN arquivos }

Terminou == pc \in {"fim", "abortado"}

Completou == pc = "fim" /\ codigoSaida = 0

\* the hashes calcularHash returned for recorded paths
HashesObtidos == { hashDe[p] : p \in Registrados } \ { "" }

\* the last line of std::cout
Ultima == saida[Len(saida)]

\* all the paths of group g have the size of its first path
MesmoTamanho(g) ==
    \A p \in Imagem(g.caminhos) : Len(fs[p]) = Len(fs[g.caminhos[1]])

\* what keeping one copy of each group frees: size x (members - 1)
RECURSIVE Exato(_)
Exato(gs) ==
    IF gs = <<>> THEN 0
    ELSE Len(fs[Head(gs).caminhos[1]]) * (Len(Head(gs).caminhos) - 1)
         + Exato(Tail(gs))

RECURSIVE NumListados(_)
NumListados(gs) ==
    IF gs = <<>> THEN 0 ELSE Len(Head(gs).caminhos) + NumListados(Tail(gs))

TamanhoListado == Soma([p \in Listados |-> Len(fs[p])], Listados)

-----------------------------------------------------------------------------
(* The claims *)

\* C1 (as stated): the paths listed under one group have the group's base
\* name, the same digest and the same content, so that same-named files
\* with different content are never listed together.
C1_GrupoMesmoNomeEConteudo ==
    \A i \in 1..Len(Grupos) :
      \A p \in Imagem(Grupos[i].caminhos), q \in Imagem(Grupos[i].caminhos) :
          /\ filename(p) = Grupos[i].nome
          /\ filename(q) = Grupos[i].nome
          /\ hashDe[p] = hashDe[q]
          /\ fs[p] = fs[q]

\* C1, the part the code keeps: the paths of one group have the group's
\* base name and the same non-empty value returned by calcularHash.
C1_GrupoMesmoNomeEHash ==
    \A i \in 1..Len(Grupos) :
      \A p \in Imagem(Grupos[i].caminhos), q \in Imagem(Grupos[i].caminhos) :
          /\ filename(p) = Grupos[i].nome
          /\ hashDe[p] # ""
          /\ hashDe[p] = hashDe[q]

\* C2 (as stated): when a run is over, for every name and digest shared by
\* two or more recorded files whose digest was computed without failure,
\* exactly one group headed by that name lists all of them, each once.
C2_TodoGrupoRelatado ==
    Terminou =>
      \A n \in DOMAIN arquivos : \A h \in HashesObtidos :
        LET S == { p \in Imagem(arquivos[n]) :
                     chamadas[p] > 0 /\ p \notin falhou /\ hashDe[p] = h }
        IN  Cardinality(S) >= 2 =>
              /\ Cardinality({ i \in 1..Len(Grupos) :
                      /\ Grupos[i].nome = n
                      /\ S \subseteq Imagem(Grupos[i].caminhos) }) = 1
              /\ \A p \in S :
                    Cardinality({ l \in 1..Len(saida) :
                        saida[l][1] = TextoCaminho /\ saida[l][2] = p }) = 1

\* C2, for the runs that return from main with status 0: the same.
C2_TodoGrupoRelatadoSeCompleta ==
    Completou =>
      \A n \in DOMAIN arquivos : \A h \in HashesObtidos :
        LET S == { p \in Imagem(arquivos[n]) :
                     chamadas[p] > 0 /\ p \notin falhou /\ hashDe[p] = h }
        IN  Cardinality(S) >= 2 =>
              /\ Cardinality({ i \in 1..Len(Grupos) :
                      /\ Grupos[i].nome = n
                      /\ S \subseteq Imagem(Grupos[i].caminhos) }) = 1
              /\ \A p \in S :
                    Cardinality({ l \in 1..Len(saida) :
                        saida[l][1] = TextoCaminho /\ saida[l][2] = p }) = 1

\* C3 (as stated): a file whose open or read failed during calcularHash is
\* listed in no reported group.
C3_FalhaForaDosGrupos ==
    \A p \in falhou : p \notin Listados

\* C3, the part the code keeps: a path for which calcularHash returned the
\* empty string is listed in no group.
C3_HashVazioForaDosGrupos ==
    \A p \in Registrados : (chamadas[p] > 0 /\ hashDe[p] = "") => p \notin Listados

\* C4 (as stated): when a run that walked the tree is over, calcularHash was
\* called for no path whose name no other recorded path has, and exactly
\* once for every path of a name that two or more recorded paths have.
C4_UmaChamadaPorMembro ==
    (Terminou /\ TipoDe(pastaRaiz) = "directory") =>
      /\ \A n \in DOMAIN arquivos : \A p \in Imagem(arquivos[n]) :
            chamadas[p] = IF Len(arquivos[n]) > 1 THEN 1 ELSE 0
      /\ \A p \in DOMAIN fs \ Registrados : chamadas[p] = 0

\* C4, the part the code keeps: never a call for a uniquely named path,
\* never two calls for a path, and exactly one for every member of a shared
\* name once exibir_duplicados has returned.
C4_UmaChamadaSeRetorna ==
    /\ \A n \in DOMAIN arquivos : \A p \in Imagem(arquivos[n]) :
          /\ Len(arquivos[n]) <= 1 => chamadas[p] = 0
          /\ chamadas[p] <= 1
          /\ (Len(arquivos[n]) > 1 /\ pc \in {"estimativa", "fim"})
                => chamadas[p] = 1
    /\ \A p \in DOMAIN fs \ Registrados : chamadas[p] = 0

\* C5: between the iterations of exibir_duplicados and after its return,
\* once a group is reported, the total of bytes is the sum of the sizes on
\* disk of the listed paths and the count is the number of listed paths; the
\* run then ends with the line of the estimate, which is the total less the
\* integer quotient total / count.
C5_TotaisEEstimativa ==
    (pc \in {"exibir", "estimativa", "fim"} /\ Len(Grupos) >= 1) =>
      /\ tamanhoTotalEmBytes = TamanhoListado
      /\ totalDuplicatas = NumListados(Grupos)
      /\ totalDuplicatas = Cardinality(Listados)
      /\ pc = "fim" =>
            /\ Ultima[1] = TextoLiberavel
            /\ Ultima[2] = TamanhoListado
                              - (TamanhoListado \div Cardinality(Listados))

\* C5 witness: Scenario A with files of one byte: one group of two paths,
\* two bytes in all, and an estimate of 2 - 2/2 = 1.
C5_Witness ==
    /\ pc = "fim"
    /\ Len(Grupos) = 1
    /\ Len(Grupos[1].caminhos) = 2
    /\ tamanhoTotalEmBytes = 2
    /\ totalDuplicatas = 2
    /\ Ultima[1] = TextoLiberavel
    /\ Ultima[2] = 1

\* C6 (as stated): when a listed file is gone at the moment its size is
\* queried, the process does not abort.
C6_SumicoNaoAborta ==
    sumiu # NenhumCaminho => pc # "abortado"

\* C7: when the root typed does not exist (the empty path included), the run
\* ends at once with status -1 after the single line of the error, without
\* the walk, without a call of calcularHash and without group or estimate.
C7_RaizInexistente ==
    (pc # "main" /\ TipoDe(pastaRaiz) = "none") =>
      /\ pc = "fim"
      /\ codigoSaida = -1
      /\ Len(saida) = Len(Cabecalho) + 1
      /\ Ultima[1] = TextoRaiz
      /\ NumLinhas(TextoRaiz) = 1
      /\ ~percorreu
      /\ arquivos = <<>>
      /\ \A p \in DOMAIN fs : chamadas[p] = 0
      /\ NumLinhas(TextoGrupo) + NumLinhas(TextoNenhum)
            + NumLinhas(TextoLiberavel) = 0

\* C7 witness: the empty line was typed over a tree that has duplicates.
C7_Witness ==
    /\ pc = "fim"
    /\ pastaRaiz = ""
    /\ codigoSaida = -1
    /\ Cardinality(DOMAIN fs) >= 2

\* C8 (as stated): a root that is a regular file ends the run normally,
\* with no file recorded and the line saying that nothing was found.
C8_RaizArquivoNaoAborta ==
    (Terminou /\ TipoDe(pastaRaiz) = "regular") =>
      /\ Completou
      /\ Len(Grupos) = 0
      /\ NumLinhas(TextoNenhum) = 1

\* C9: a run over an existing root that reaches the end of main has status
\* 0 and exactly one closing line, which is its last line: the line saying
\* that nothing was found iff no group was reported, the line of the
\* estimate iff a group was; an empty tree gives the former, totals zero.
C9_UmFecho ==
    (pc = "fim" /\ TipoDe(pastaRaiz) # "none") =>
      /\ codigoSaida = 0
      /\ NumLinhas(TextoNenhum) + NumLinhas(TextoLiberavel) = 1
      /\ Ultima[1] \in {TextoNenhum, TextoLiberavel}
      /\ NumLinhas(TextoNenhum) = 1 <=> Len(Grupos) = 0
      /\ NumLinhas(TextoLiberavel) = 1 <=> Len(Grupos) >= 1
      /\ DOMAIN fs = {} =>
            /\ NumLinhas(TextoNenhum) = 1
            /\ tamanhoTotalEmBytes = 0
            /\ totalDuplicatas = 0

\* C9 witness: a run that reported a group and closed with the estimate.
C9_Witness ==
    /\ pc = "fim"
    /\ codigoSaida = 0
    /\ Len(Grupos) >= 1
    /\ NumLinhas(TextoLiberavel) = 1
    /\ NumLinhas(TextoNenhum) = 0

\* C10: when every reported group has files of one size, the estimate
\* printed is at least the sum over the groups of size x (members - 1),
\* equals it when one group was reported, is at most the total of bytes,
\* and exceeds it when two or more groups of non-empty files were reported.
C10_EstimativaContraExato ==
    (/\ pc = "fim"
     /\ Len(Grupos) >= 1
     /\ \A i \in 1..Len(Grupos) : MesmoTamanho(Grupos[i])) =>
      /\ Ultima[1] = TextoLiberavel
      /\ Ultima[2] >= Exato(Grupos)
      /\ Len(Grupos) = 1 => Ultima[2] = Exato(Grupos)
      /\ Ultima[2] <= TamanhoListado
      /\ (/\ Len(Grupos) >= 2
          /\ \A i \in 1..Len(Grupos) : Len(fs[Grupos[i].caminhos[1]]) > 0)
            => Ultima[2] > Exato(Grupos)

\* C10 witness: two groups of two one-byte files: the estimate is
\* 4 - 4/4 = 3 where one copy kept per group frees 2.
C10_Witness ==
    /\ pc = "fim"
    /\ Len(Grupos) = 2
    /\ \A i \in 1..Len(Grupos) :
          MesmoTamanho(Grupos[i]) /\ Len(fs[Grupos[i].caminhos[1]]) = 1
    /\ Ultima[1] = TextoLiberavel
    /\ Ultima[2] = 3
    /\ Exato(Grupos) = 2

=============================================================================
